---- MODULE Spec2Model ----
(***************************************************************************)
(* A model of clicktt: the window-manipulation library of src/lib.rs and   *)
(* its three platform backends (src/platform/windows.rs, linux.rs,         *)
(* macos.rs).  The operating system's window registry, the process-wide    *)
(* click-through table with its mutex, and the position of every caller    *)
(* thread inside the operation it is running are the state; every OS call  *)
(* and every lock operation of a backend function is one step.             *)
(***************************************************************************)
EXTENDS Integers, Sequences, FiniteSets, TLC

\* ------------------------------------------------------------------ bounds
\* Calls the callers may start in one behaviour.
MaxCalls == 3

\* ------------------------------------------------------------- input sets
Threads == {1, 2}
NullHandle == 0
Handles == {0, 1, 2}
Platforms == {"win32", "x11", "cocoa"}

\* An f64 opacity, in tenths, or NaN.
F64(n) == [nan |-> FALSE, tenths |-> n]
NaN == [nan |-> TRUE, tenths |-> 0]
OpacityInputs == {F64(0 - 5), F64(0), F64(5), F64(10), F64(17), NaN}

\* Extended window style bits of Win32 (sets of bit names; | is \cup).
WS_EX_TRANSPARENT == "WS_EX_TRANSPARENT"
WS_EX_LAYERED == "WS_EX_LAYERED"
WS_EX_TOOLWINDOW == "WS_EX_TOOLWINDOW"
WS_EX_NOACTIVATE == "WS_EX_NOACTIVATE"
WS_EX_TOPMOST == "WS_EX_TOPMOST"

\* A title is a sequence of characters; a class name is compared whole.
T_Empty == << >>
T_MyNotepad ==
  <<"M", "y", " ", "N", "o", "t", "e", "p", "a", "d", " ", "-", " ",
    "f", "i", "l", "e", ".", "t", "x", "t">>
T_Notepad == <<"N", "o", "t", "e", "p", "a", "d">>
T_notepad == <<"n", "o", "t", "e", "p", "a", "d">>
T_PAD == <<"P", "A", "D">>

VARIABLES
  platform,    \* the OS the library was built for
  callers,     \* the threads of the host that call into the library
  oswins,      \* the OS window registry: the top-level windows, in OS order
  table,       \* CLICK_THROUGH_STATE: handle -> bool (X11 and macOS)
  lock,        \* holder of the table's mutex, 0 when free
  disp,        \* per thread: the X11 display connection it holds open
  crashed,     \* the process died (message sent to a dangling pointer)
  pc,          \* per thread: position inside the running operation
  call,        \* per thread: the running (or last) call and its arguments
  cur,         \* per thread: toggle_click_through's `current`
  exs,         \* per thread: the `ex_style` a Win32 function has read
  ret,         \* per thread: the value the last call returned
  pre,         \* per thread: is_click_through(h) when the call began
  post,        \* per thread: is_click_through(h) when the call returned
  osCalls,     \* per thread: OS calls issued by the running call
  tblAcc,      \* per thread: table reads and writes of the running call
  clean,       \* per thread: no other call on the same handle overlapped
  prev,        \* single caller: summary of the call before the last one
  tbl0,        \* single caller: the table when the running call began
  lastSet,     \* single caller, X11 and macOS: handle -> the flag of the last
               \* set_click_through on it that returned Ok
  ncalls,      \* calls started so far
  dispatched,  \* opacity the running call hands to platform::set_window_opacity
  enumRes      \* result of the running call, an enumeration or a lookup

vars == <<platform, callers, oswins, table, lock, disp, crashed,
          pc, call, cur, exs, ret, pre, post, osCalls, tblAcc, clean, prev,
          tbl0, lastSet, ncalls, dispatched, enumRes>>

\* --------------------------------------------------------- the OS registry
\* One top-level window as the OS holds it.
\* alpha is what the platform keeps as the window's opacity: a byte on Win32
\* (lo), the 32-bit _NET_WM_WINDOW_OPACITY in two 16-bit halves on X11 (hi, lo),
\* the alphaValue in tenths on macOS (lo, or nan).
Opaque(p) ==
  IF p = "win32" THEN [nan |-> FALSE, hi |-> 0, lo |-> 255]
  ELSE IF p = "x11" THEN [nan |-> FALSE, hi |-> 65535, lo |-> 65535]
  ELSE [nan |-> FALSE, hi |-> 0, lo |-> 10]
\* title: the window text (Win32), WM_NAME (X11), kCGWindowName (macOS), and
\* hasTitle whether that property exists at all; netName: _NET_WM_NAME (X11);
\* visible: IsWindowVisible / map_state = IsViewable / on screen; attrsOk:
\* XGetWindowAttributes succeeds; hasNumber: the CGWindow dictionary has
\* kCGWindowNumber; inputOff: empty input shape (X11), ignoresMouseEvents
\* (macOS); above: _NET_WM_STATE_ABOVE (X11), floating level (macOS).
OsWindow(p, h, title, cls, visible, exstyle) ==
  [handle |-> h, title |-> title, hasTitle |-> TRUE, netName |-> T_Empty,
   cls |-> cls, visible |-> visible, exstyle |-> exstyle, attrsOk |-> TRUE,
   hasNumber |-> TRUE, inputOff |-> FALSE, above |-> FALSE,
   alpha |-> Opaque(p)]

Live(h) == \E i \in DOMAIN oswins : oswins[i].handle = h
Win(h) == oswins[CHOOSE i \in DOMAIN oswins : oswins[i].handle = h]

\* `ws` with window h replaced by f applied to it; unchanged when h is no window.
Update(ws, h, field, v) ==
  [i \in DOMAIN ws |->
     IF ws[i].handle = h THEN [ws[i] EXCEPT ![field] = v] ELSE ws[i]]

\* GetWindowLongPtrW(hwnd, GWL_EXSTYLE): 0 when hwnd is not a window.
GetWindowLongPtrW(h) == IF Live(h) THEN Win(h).exstyle ELSE {}
\* SetWindowLongPtrW(hwnd, GWL_EXSTYLE, s): fails, changing nothing, when
\* hwnd is not a window.
SetWindowLongPtrW(ws, h, s) == Update(ws, h, "exstyle", s)

\* ------------------------------------------------------------ return values
OkUnit == "Ok(())"
OkBool(b) == IF b THEN "Ok(true)" ELSE "Ok(false)"
ErrInvalidArg == "Err(InvalidArg)"
ErrGenericFailure == "Err(GenericFailure)"
NoRet == "-"
\* Ok of a list or an option, the value itself being kept in enumRes.
OkValue == "Ok(value)"
IsErr(r) == r \in {ErrInvalidArg, ErrGenericFailure}
IsOk(r) == r \in {OkUnit, OkBool(TRUE), OkBool(FALSE), OkValue}
\* Result<Vec<WindowInfo>> and Result<Option<WindowInfo>>: the records, Some as
\* a list of one and None as the empty list, or the error.
Ok(list) == [status |-> "ok", list |-> list]
Err(e) == [status |-> e, list |-> << >>]

\* What an enumeration or lookup returned, with the registry it ran against;
\* display: XOpenDisplay succeeded (TRUE where no display is opened).
EnumResult(op, h, title, exact, res) ==
  [op |-> op, h |-> h, title |-> title, exact |-> exact, ws |-> oswins,
   res |-> res, display |-> TRUE]
NoEnum ==
  [op |-> "none", h |-> 0, title |-> T_Empty, exact |-> "none",
   ws |-> << >>, res |-> Ok(<< >>), display |-> TRUE]

\* ------------------------------------------------------------------- calls
CtOps == {"set", "is", "toggle"}
\* getWindows and getWindowInfo.
LookupOps == {"get_windows", "get_window_info"}
\* The operations only windows.rs implements.
WinOnlyOps ==
  {"get_window_process_path", "close_window", "focus_window",
   "set_window_state", "kill_window_process"}
Call(op, h, enable, opacity) ==
  [op |-> op, h |-> h, enable |-> enable, opacity |-> opacity]
NoCall == Call("none", 0, FALSE, F64(0))
\* lib.rs: setClickThrough / removeClickThrough are platform::set_click_through
\* with enable = true / false.
Calls ==
  {Call("set", h, e, F64(0)) : h \in Handles, e \in BOOLEAN}
  \cup {Call(op, h, FALSE, F64(0)) : op \in {"is", "toggle"}, h \in Handles}
  \cup {Call("top", h, e, F64(0)) : h \in Handles, e \in BOOLEAN}
  \cup {Call("opacity", h, FALSE, o) : h \in Handles, o \in OpacityInputs}
  \cup {Call("get_windows", NullHandle, FALSE, F64(0))}
  \cup {Call("get_window_info", h, FALSE, F64(0)) : h \in Handles}
  \cup {Call(op, h, FALSE, F64(0)) : op \in WinOnlyOps, h \in Handles}

\* TableGet as it would be had an unseen handle defaulted to true.
TableGetDefaultTrue(h) == IF h \in DOMAIN table THEN table[h] ELSE TRUE
\* What is_click_through(h) answers in the current state (FALSE where it
\* answers an error).
TableGet(h) == IF h \in DOMAIN table THEN table[h] ELSE FALSE
ObsCT(h) ==
  IF platform = "win32"
  THEN h # NullHandle /\ WS_EX_TRANSPARENT \in GetWindowLongPtrW(h)
  ELSE TableGet(h)

\* Enable as it would be had toggle_click_through passed `true`, not `!current`.
EnableAlways(t) == IF call[t].op = "toggle" THEN TRUE ELSE call[t].enable
\* The `enable` the running set_click_through was called with.
Enable(t) == IF call[t].op = "toggle" THEN ~cur[t] ELSE call[t].enable
\* SetDone as it would be had toggle_click_through returned Ok(current).
SetDoneCurrent(t) ==
  IF call[t].op = "toggle" THEN OkBool(cur[t])
  ELSE IF call[t].op \in LookupOps THEN OkValue
  ELSE OkUnit
\* What the running call returns once its body has run through:
\* toggle_click_through Ok(!current), a lookup its value, the others Ok(()).
SetDone(t) ==
  IF call[t].op = "toggle" THEN OkBool(~cur[t])
  ELSE IF call[t].op \in LookupOps THEN OkValue
  ELSE OkUnit

InProgress(t) == pc[t] \notin {"idle", "done"}

\* The thread goes to `label`, having issued `os` OS calls and `tb` table
\* accesses in this step.
Goto(t, label, os, tb) ==
  /\ pc' = [pc EXCEPT ![t] = label]
  /\ osCalls' = [osCalls EXCEPT ![t] = @ + os]
  /\ tblAcc' = [tblAcc EXCEPT ![t] = @ + tb]
\* The operation's body ends with value r.
Finish(t, r, os, tb) ==
  /\ Goto(t, "ret", os, tb)
  /\ ret' = [ret EXCEPT ![t] = r]

\* Variables no step of an operation's body changes.
CallFrame ==
  UNCHANGED <<platform, callers, call, pre, post, clean, prev, tbl0, lastSet,
              ncalls, dispatched>>
\* The same for a step of an operation that is no enumeration or lookup.
StepFrame == CallFrame /\ UNCHANGED enumRes

Running(t, label) == ~crashed /\ pc[t] = label

\* ------------------------------------------------------------------ lib.rs
\* Clamp as it would be had lib.rs handed the opacity on as given.
ClampNone(o) == o
\* f64::clamp(0.0, 1.0): NaN stays NaN.
Clamp(o) ==
  IF o.nan THEN o
  ELSE IF o.tenths < 0 THEN F64(0)
  ELSE IF o.tenths > 10 THEN F64(10)
  ELSE o

\* The opacity lib.rs hands to platform::set_window_opacity.
Opacity(t) == Clamp(call[t].opacity)

NoPrev == [toggle |-> FALSE, h |-> 0, pre |-> FALSE, post |-> FALSE, ok |-> FALSE]
\* The call thread t has just completed, as far as a later call looks back.
Summary(t) ==
  IF call[t].op = "toggle"
  THEN [toggle |-> TRUE, h |-> call[t].h, pre |-> pre[t], post |-> post[t],
        ok |-> IsOk(ret[t])]
  ELSE NoPrev

\* A caller thread enters one of the exported functions.
Begin(t) ==
  /\ ~crashed /\ t \in callers /\ ~InProgress(t) /\ ncalls < MaxCalls
  /\ \E c \in Calls :
       /\ Cardinality(callers) > 1 => c.op \in CtOps /\ c.h # NullHandle
       \* The Win32 implementations of these five (windows.rs:313-450) act on
       \* the window's process and are left out: off Win32 only.
       /\ c.op \in WinOnlyOps => platform # "win32"
       /\ call' = [call EXCEPT ![t] = c]
       /\ pc' = [pc EXCEPT ![t] = IF c.op = "toggle" THEN "is" ELSE c.op]
       /\ pre' = [pre EXCEPT ![t] = ObsCT(c.h)]
       /\ clean' = [u \in Threads |->
            IF u = t
            THEN \A v \in Threads \ {t} : ~(InProgress(v) /\ call[v].h = c.h)
            ELSE clean[u] /\ ~(InProgress(u) /\ call[u].h = c.h)]
       /\ dispatched' = IF c.op = "opacity" THEN Clamp(c.opacity) ELSE F64(10)
  /\ prev' = IF callers = {t} /\ pc[t] = "done" THEN Summary(t) ELSE prev
  /\ tbl0' = IF callers = {t} THEN table ELSE tbl0
  /\ ncalls' = ncalls + 1
  /\ osCalls' = [osCalls EXCEPT ![t] = 0]
  /\ tblAcc' = [tblAcc EXCEPT ![t] = 0]
  /\ ret' = [ret EXCEPT ![t] = NoRet]
  /\ post' = [post EXCEPT ![t] = FALSE]
  /\ enumRes' = NoEnum
  /\ UNCHANGED <<platform, callers, oswins, table, lock, disp, crashed, cur,
                 exs, lastSet>>

\* The function returns to the caller.
Return(t) ==
  /\ Running(t, "ret")
  /\ pc' = [pc EXCEPT ![t] = "done"]
  /\ post' = [post EXCEPT ![t] = ObsCT(call[t].h)]
  /\ lastSet' =
       IF callers = {t} /\ platform # "win32" /\ IsOk(ret[t])
          /\ call[t].op \in {"set", "toggle"}
       THEN LET flag == IF call[t].op = "set" THEN call[t].enable ELSE ~cur[t]
            IN [x \in DOMAIN lastSet \cup {call[t].h} |->
                  IF x = call[t].h THEN flag ELSE lastSet[x]]
       ELSE lastSet
  /\ UNCHANGED <<platform, callers, oswins, table, lock, disp, crashed, call,
                 cur, exs, ret, pre, osCalls, tblAcc, clean, prev, tbl0, ncalls,
                 dispatched, enumRes>>

\* ------------------------------------------------------ platform/windows.rs
NewExStyle(ex_style, enable) ==
  IF enable
  THEN ex_style \cup {WS_EX_TRANSPARENT, WS_EX_LAYERED}
  ELSE (ex_style \ {WS_EX_TRANSPARENT}) \cup {WS_EX_LAYERED}

\* is_click_through: the null check, then GetWindowLongPtrW.
WinIsClickThrough(t) ==
  /\ platform = "win32" /\ Running(t, "is")
  /\ LET h == call[t].h
         v == WS_EX_TRANSPARENT \in GetWindowLongPtrW(h)
     IN IF h = NullHandle
        THEN Finish(t, ErrInvalidArg, 0, 0) /\ UNCHANGED cur
        ELSE IF call[t].op = "is"
        THEN Finish(t, OkBool(v), 1, 0) /\ UNCHANGED cur
        ELSE /\ Goto(t, "set", 1, 0)
             /\ cur' = [cur EXCEPT ![t] = v]
             /\ UNCHANGED ret
  /\ UNCHANGED <<oswins, table, lock, disp, crashed, exs>>
  /\ StepFrame

\* set_click_through: the null check, then GetWindowLongPtrW into ex_style.
WinSetRead(t) ==
  /\ platform = "win32" /\ Running(t, "set")
  /\ IF call[t].h = NullHandle
     THEN Finish(t, ErrInvalidArg, 0, 0) /\ UNCHANGED exs
     ELSE /\ Goto(t, "set_write", 1, 0)
          /\ exs' = [exs EXCEPT ![t] = GetWindowLongPtrW(call[t].h)]
          /\ UNCHANGED ret
  /\ UNCHANGED <<oswins, table, lock, disp, crashed, cur>>
  /\ StepFrame

\* set_click_through: SetWindowLongPtrW(new_style), then SetWindowPos to refresh.
WinSetWrite(t) ==
  /\ platform = "win32" /\ Running(t, "set_write")
  /\ oswins' = SetWindowLongPtrW(oswins, call[t].h, NewExStyle(exs[t], Enable(t)))
  /\ Finish(t, SetDone(t), 2, 0)
  /\ UNCHANGED <<table, lock, disp, crashed, cur, exs>>
  /\ StepFrame

\* set_always_on_top: the null check, then SetWindowPos(HWND_TOPMOST or
\* HWND_NOTOPMOST), which fails when hwnd is not a window.
WinSetAlwaysOnTop(t) ==
  /\ platform = "win32" /\ Running(t, "top")
  /\ LET h == call[t].h IN
     IF h = NullHandle
     THEN Finish(t, ErrInvalidArg, 0, 0) /\ UNCHANGED oswins
     ELSE IF Live(h)
     THEN /\ oswins' = Update(oswins, h, "exstyle",
                 IF call[t].enable
                 THEN Win(h).exstyle \cup {WS_EX_TOPMOST}
                 ELSE Win(h).exstyle \ {WS_EX_TOPMOST})
          /\ Finish(t, OkUnit, 1, 0)
     ELSE Finish(t, ErrGenericFailure, 1, 0) /\ UNCHANGED oswins
  /\ UNCHANGED <<table, lock, disp, crashed, cur, exs>>
  /\ StepFrame

\* (opacity * 255.0) as u8: a saturating cast, NaN to 0.
AlphaU8(o) ==
  IF o.nan \/ o.tenths < 0 THEN 0
  ELSE IF (o.tenths * 255) \div 10 > 255 THEN 255
  ELSE (o.tenths * 255) \div 10

\* set_window_opacity: the null check, then GetWindowLongPtrW into ex_style.
WinOpacityRead(t) ==
  /\ platform = "win32" /\ Running(t, "opacity")
  /\ IF call[t].h = NullHandle
     THEN Finish(t, ErrInvalidArg, 0, 0) /\ UNCHANGED exs
     ELSE /\ Goto(t, "opacity_write", 1, 0)
          /\ exs' = [exs EXCEPT ![t] = GetWindowLongPtrW(call[t].h)]
          /\ UNCHANGED ret
  /\ UNCHANGED <<oswins, table, lock, disp, crashed, cur>>
  /\ StepFrame

\* WinOpacityWrite as it would be had the new style been WS_EX_LAYERED alone,
\* not ex_style | WS_EX_LAYERED.
WinOpacityWriteLayeredOnly(t) ==
  /\ platform = "win32" /\ Running(t, "opacity_write")
  /\ LET h == call[t].h
         layered == WS_EX_LAYERED \in exs[t]
         ws == IF layered THEN oswins
               ELSE SetWindowLongPtrW(oswins, h, {WS_EX_LAYERED})
         n == IF layered THEN 1 ELSE 2
     IN IF Live(h)
        THEN /\ oswins' = Update(ws, h, "alpha",
                    [nan |-> FALSE, hi |-> 0, lo |-> AlphaU8(Opacity(t))])
             /\ Finish(t, OkUnit, n, 0)
        ELSE /\ oswins' = ws
             /\ Finish(t, ErrGenericFailure, n, 0)
  /\ UNCHANGED <<table, lock, disp, crashed, cur, exs>>
  /\ StepFrame

\* set_window_opacity: SetWindowLongPtrW adds WS_EX_LAYERED when ex_style lacks
\* it, then SetLayeredWindowAttributes, which fails when hwnd is not a window.
WinOpacityWrite(t) ==
  /\ platform = "win32" /\ Running(t, "opacity_write")
  /\ LET h == call[t].h
         layered == WS_EX_LAYERED \in exs[t]
         ws == IF layered THEN oswins
               ELSE SetWindowLongPtrW(oswins, h, exs[t] \cup {WS_EX_LAYERED})
         n == IF layered THEN 1 ELSE 2
     IN IF Live(h)
        THEN /\ oswins' = Update(ws, h, "alpha",
                    [nan |-> FALSE, hi |-> 0, lo |-> AlphaU8(Opacity(t))])
             /\ Finish(t, OkUnit, n, 0)
        ELSE /\ oswins' = ws
             /\ Finish(t, ErrGenericFailure, n, 0)
  /\ UNCHANGED <<table, lock, disp, crashed, cur, exs>>
  /\ StepFrame

\* -------------------------------------------------------- platform/linux.rs
\* The label after get_display() in each function that opens the display.
AfterOpen(label) ==
  CASE label = "set" -> "set_shape"
    [] label = "top" -> "top_send"
    [] label = "opacity" -> "opacity_prop"
    [] label = "get_windows" -> "list_windows"
    [] label = "get_window_info" -> "info_attrs"

\* X11Open as it would be had set_click_through recorded the flag before the
\* display was known to be open.
X11OpenRecordsFirst(t) ==
  /\ platform = "x11" /\ ~crashed
  /\ pc[t] \in {"set", "top", "opacity", "get_windows", "get_window_info"}
  /\ \/ /\ disp' = [disp EXCEPT ![t] = TRUE]
        /\ Goto(t, AfterOpen(pc[t]), 1, 0)
        /\ UNCHANGED <<ret, enumRes, table>>
     \/ /\ Finish(t, ErrGenericFailure, 1, 0)
        /\ enumRes' = IF call[t].op \in LookupOps
                      THEN [EnumResult(call[t].op, call[t].h, T_Empty, "none",
                                       Err(ErrGenericFailure))
                              EXCEPT !.display = FALSE]
                      ELSE enumRes
        /\ table' = IF pc[t] = "set"
                    THEN [x \in DOMAIN table \cup {call[t].h} |->
                            IF x = call[t].h THEN Enable(t) ELSE table[x]]
                    ELSE table
        /\ UNCHANGED disp
  /\ UNCHANGED <<oswins, lock, crashed, cur, exs>>
  /\ CallFrame

\* get_display(): XOpenDisplay, which the X server may refuse; the caller
\* returns Err("Cannot open X11 display") then.
X11Open(t) ==
  /\ platform = "x11" /\ ~crashed
  /\ pc[t] \in {"set", "top", "opacity", "get_windows", "get_window_info"}
  /\ \/ /\ disp' = [disp EXCEPT ![t] = TRUE]
        /\ Goto(t, AfterOpen(pc[t]), 1, 0)
        /\ UNCHANGED <<ret, enumRes>>
     \/ /\ Finish(t, ErrGenericFailure, 1, 0)
        /\ enumRes' = IF call[t].op \in LookupOps
                      THEN [EnumResult(call[t].op, call[t].h, T_Empty, "none",
                                       Err(ErrGenericFailure))
                              EXCEPT !.display = FALSE]
                      ELSE enumRes
        /\ UNCHANGED disp
  /\ UNCHANGED <<oswins, table, lock, crashed, cur, exs>>
  /\ CallFrame

\* set_click_through: XCreateRegion, XShapeCombineRegion, XDestroyRegion when
\* enabling, XShapeCombineMask when disabling.  The request changes the input
\* shape of an existing window only.
X11Shape(t) ==
  /\ platform = "x11" /\ Running(t, "set_shape")
  /\ oswins' = Update(oswins, call[t].h, "inputOff", Enable(t))
  /\ Goto(t, "set_lock", IF Enable(t) THEN 3 ELSE 1, 0)
  /\ UNCHANGED <<table, lock, disp, crashed, cur, exs, ret>>
  /\ StepFrame

\* set_click_through (linux.rs, macos.rs): CLICK_THROUGH_STATE.lock().
SetLock(t) ==
  /\ platform # "win32" /\ Running(t, "set_lock")
  /\ lock = 0
  /\ lock' = t
  /\ Goto(t, "set_insert", 0, 0)
  /\ UNCHANGED <<oswins, table, disp, crashed, cur, exs, ret>>
  /\ StepFrame

\* Insert as it would be had the map been replaced by one holding h alone.
InsertClobber(tb, h, enable) == [x \in {h} |-> enable]
\* Insert as it would be had disabling removed the handle's entry.
InsertOrRemove(tb, h, enable) ==
  IF enable THEN [x \in DOMAIN tb \cup {h} |-> IF x = h THEN TRUE ELSE tb[x]]
  ELSE [x \in DOMAIN tb \ {h} |-> tb[x]]
\* HashMap::insert: the entry for h is created or overwritten.
Insert(tb, h, enable) ==
  [x \in DOMAIN tb \cup {h} |-> IF x = h THEN enable ELSE tb[x]]

\* SetInsert as it would be had the guard been bound for the rest of the
\* function: the mutex stays locked through XCloseDisplay and the return.
SetInsertHold(t) ==
  /\ platform # "win32" /\ Running(t, "set_insert")
  /\ table' = Insert(table, call[t].h, Enable(t))
  /\ lock' = t
  /\ IF platform = "x11"
     THEN Goto(t, "x_close", 0, 1) /\ UNCHANGED ret
     ELSE Finish(t, SetDone(t), 0, 1)
  /\ UNCHANGED <<oswins, disp, crashed, cur, exs>>
  /\ StepFrame

\* set_click_through: state.insert(handle, enable); the guard is dropped at
\* the end of the `if let`.  On macOS the function then returns Ok.
SetInsert(t) ==
  /\ platform # "win32" /\ Running(t, "set_insert")
  /\ table' = Insert(table, call[t].h, Enable(t))
  /\ lock' = 0
  /\ IF platform = "x11"
     THEN Goto(t, "x_close", 0, 1) /\ UNCHANGED ret
     ELSE Finish(t, SetDone(t), 0, 1)
  /\ UNCHANGED <<oswins, disp, crashed, cur, exs>>
  /\ StepFrame

\* XCloseDisplay(display), then Ok(()); toggle_click_through returns Ok(!current).
X11Close(t) ==
  /\ platform = "x11" /\ Running(t, "x_close")
  /\ disp' = [disp EXCEPT ![t] = FALSE]
  /\ Finish(t, SetDone(t), 1, 0)
  /\ UNCHANGED <<oswins, table, lock, crashed, cur, exs>>
  /\ StepFrame

\* is_click_through (linux.rs, macos.rs): CLICK_THROUGH_STATE.lock().
IsLock(t) ==
  /\ platform # "win32" /\ Running(t, "is")
  /\ lock = 0
  /\ lock' = t
  /\ Goto(t, "is_read", 0, 0)
  /\ UNCHANGED <<oswins, table, disp, crashed, cur, exs, ret>>
  /\ StepFrame

\* is_click_through: *state.get(&handle).unwrap_or(&false); the guard is
\* dropped.  toggle_click_through goes on to set_click_through(handle, !current).
IsRead(t) ==
  /\ platform # "win32" /\ Running(t, "is_read")
  /\ lock' = 0
  /\ IF call[t].op = "is"
     THEN Finish(t, OkBool(TableGet(call[t].h)), 0, 1) /\ UNCHANGED cur
     ELSE /\ Goto(t, "set", 0, 1)
          /\ cur' = [cur EXCEPT ![t] = TableGet(call[t].h)]
          /\ UNCHANGED ret
  /\ UNCHANGED <<oswins, table, disp, crashed, exs>>
  /\ StepFrame

\* set_always_on_top: XInternAtom twice, XSendEvent of _NET_WM_STATE to the
\* root window, XFlush.  A window manager that follows EWMH applies it.
X11TopSend(t) ==
  /\ platform = "x11" /\ Running(t, "top_send")
  /\ \E ewmh \in BOOLEAN :
       oswins' = IF ewmh THEN Update(oswins, call[t].h, "above", call[t].enable)
                 ELSE oswins
  /\ Goto(t, "x_close", 4, 0)
  /\ UNCHANGED <<table, lock, disp, crashed, cur, exs, ret>>
  /\ StepFrame

\* (opacity * 0xFFFFFFFF as f64) as u32, in two 16-bit halves: a saturating
\* cast, NaN to 0.
AlphaU32(o) ==
  IF o.nan \/ o.tenths < 0 THEN [nan |-> FALSE, hi |-> 0, lo |-> 0]
  ELSE IF o.tenths >= 10 THEN [nan |-> FALSE, hi |-> 65535, lo |-> 65535]
  ELSE LET p == o.tenths * 65535
       IN [nan |-> FALSE, hi |-> p \div 10, lo |-> ((p % 10) * 65536 + p) \div 10]

\* set_window_opacity: XInternAtom, XChangeProperty(_NET_WM_WINDOW_OPACITY), XFlush.
X11OpacityProp(t) ==
  /\ platform = "x11" /\ Running(t, "opacity_prop")
  /\ oswins' = Update(oswins, call[t].h, "alpha", AlphaU32(Opacity(t)))
  /\ Goto(t, "x_close", 3, 0)
  /\ UNCHANGED <<table, lock, disp, crashed, cur, exs, ret>>
  /\ StepFrame

\* -------------------------------------------------------- platform/macos.rs
\* `handle as id` is a raw pointer: msg_send! to a pointer that is no live
\* NSWindow is undefined behaviour.  The process may die there ...
CocoaDangling(t) ==
  /\ platform = "cocoa" /\ ~crashed /\ pc[t] \in {"set", "top", "opacity"}
  /\ call[t].h # NullHandle /\ ~Live(call[t].h)
  /\ crashed' = TRUE
  /\ UNCHANGED <<oswins, table, lock, disp, pc, cur, exs, ret, osCalls, tblAcc>>
  /\ StepFrame

\* ... or the message may be lost; a live window takes it.
\* set_click_through: the nil check, then setIgnoresMouseEvents.
CocoaSetIgnores(t) ==
  /\ platform = "cocoa" /\ Running(t, "set")
  /\ IF call[t].h = NullHandle
     THEN Finish(t, ErrInvalidArg, 0, 0) /\ UNCHANGED oswins
     ELSE /\ oswins' = Update(oswins, call[t].h, "inputOff", Enable(t))
          /\ Goto(t, "set_lock", 1, 0)
          /\ UNCHANGED ret
  /\ UNCHANGED <<table, lock, disp, crashed, cur, exs>>
  /\ StepFrame

\* set_always_on_top: the nil check, then setLevel (3 floating, 0 normal).
CocoaSetLevel(t) ==
  /\ platform = "cocoa" /\ Running(t, "top")
  /\ IF call[t].h = NullHandle
     THEN Finish(t, ErrInvalidArg, 0, 0) /\ UNCHANGED oswins
     ELSE /\ oswins' = Update(oswins, call[t].h, "above", call[t].enable)
          /\ Finish(t, OkUnit, 1, 0)
  /\ UNCHANGED <<table, lock, disp, crashed, cur, exs>>
  /\ StepFrame

\* set_window_opacity: the nil check, then setAlphaValue: opacity.
CocoaSetAlpha(t) ==
  /\ platform = "cocoa" /\ Running(t, "opacity")
  /\ IF call[t].h = NullHandle
     THEN Finish(t, ErrInvalidArg, 0, 0) /\ UNCHANGED oswins
     ELSE /\ oswins' = Update(oswins, call[t].h, "alpha",
                 [nan |-> Opacity(t).nan, hi |-> 0, lo |-> Opacity(t).tenths])
          /\ Finish(t, OkUnit, 1, 0)
  /\ UNCHANGED <<table, lock, disp, crashed, cur, exs>>
  /\ StepFrame

\* ------------------------------------------------ the library under callers
\* The click-through operations.
StepCt(t) ==
  \/ Begin(t) \/ Return(t)
  \/ WinIsClickThrough(t) \/ WinSetRead(t) \/ WinSetWrite(t)
  \/ X11Open(t) \/ X11Shape(t) \/ X11Close(t)
  \/ SetLock(t) \/ SetInsert(t) \/ IsLock(t) \/ IsRead(t)
  \/ CocoaDangling(t) \/ CocoaSetIgnores(t)

\* set_always_on_top and set_window_opacity.
StepAttr(t) ==
  \/ WinSetAlwaysOnTop(t) \/ WinOpacityRead(t) \/ WinOpacityWrite(t)
  \/ X11TopSend(t) \/ X11OpacityProp(t)
  \/ CocoaSetLevel(t) \/ CocoaSetAlpha(t)

\* Extended styles a window may have when the library first sees it.
InitStyles == {{}, {WS_EX_TRANSPARENT, WS_EX_TOOLWINDOW}}

\* The registries the click-through operations are run against: window 1
\* alone (handle 2 names no window), or windows 1 and 2.
Registries(p) ==
  LET styles == IF p = "win32" THEN InitStyles ELSE {{}}
      W(h, s) == OsWindow(p, h, T_Notepad, "Notepad", TRUE, s)
  IN {<<W(1, s)>> : s \in styles}
     \cup {<<W(1, s1), W(2, s2)>> : s1 \in styles, s2 \in styles}

\* The state of a freshly loaded library: the table is empty, no call runs.
InitLib ==
  /\ table = << >>
  /\ lock = 0
  /\ disp = [t \in Threads |-> FALSE]
  /\ crashed = FALSE
  /\ pc = [t \in Threads |-> "idle"]
  /\ call = [t \in Threads |-> NoCall]
  /\ cur = [t \in Threads |-> FALSE]
  /\ exs = [t \in Threads |-> {}]
  /\ ret = [t \in Threads |-> NoRet]
  /\ pre = [t \in Threads |-> FALSE]
  /\ post = [t \in Threads |-> FALSE]
  /\ osCalls = [t \in Threads |-> 0]
  /\ tblAcc = [t \in Threads |-> 0]
  /\ clean = [t \in Threads |-> TRUE]
  /\ prev = NoPrev
  /\ tbl0 = << >>
  /\ lastSet = << >>
  /\ ncalls = 0
  /\ dispatched = F64(10)
  /\ enumRes = NoEnum

\* One caller thread: every operation runs to its end before the next begins.
Init ==
  /\ platform \in Platforms
  /\ callers = {1}
  /\ oswins \in Registries(platform)
  /\ InitLib

\* Two caller threads in the click-through operations.
InitConc ==
  /\ platform \in Platforms
  /\ callers = {1, 2}
  /\ oswins \in Registries(platform)
  /\ InitLib

NextConc == \E t \in Threads : StepCt(t)

SpecConc == InitConc /\ [][NextConc]_vars

\* ------------------------------------------------- enumeration and lookup
\* The WindowInfo fields the filters read or decide.
WindowInfo(h, title, cls, visible) ==
  [handle |-> h, title |-> title, class_name |-> cls, visible |-> visible]

\* IsEmpty as it would be had the empty-title test been left out.
IsEmptyNever(title) == FALSE
\* String::is_empty.
IsEmpty(title) == Len(title) = 0

\* skip_classes as it would be without the desktop's class.
skip_classes_short ==
  {"Windows.UI.Core.CoreWindow", "Shell_TrayWnd", "Shell_SecondaryTrayWnd",
   "WorkerW"}
\* windows.rs: the system window classes enum_windows_callback skips.
skip_classes ==
  {"Windows.UI.Core.CoreWindow", "Shell_TrayWnd", "Shell_SecondaryTrayWnd",
   "Progman", "WorkerW"}

\* windows.rs: one window of EnumWindows; data.windows grows or stays.
enum_windows_callback(w, data) ==
  IF ~w.visible THEN data
  ELSE IF IsEmpty(w.title) THEN data
  ELSE IF \E c \in skip_classes : w.cls = c THEN data
  ELSE IF WS_EX_TOOLWINDOW \in w.exstyle /\ WS_EX_NOACTIVATE \notin w.exstyle
  THEN data
  ELSE Append(data, WindowInfo(w.handle, w.title, w.cls, TRUE))

\* EnumWindows: the callback on every top-level window, in the OS's order.
RECURSIVE EnumWindows(_, _)
EnumWindows(ws, data) ==
  IF ws = << >> THEN data
  ELSE EnumWindows(Tail(ws), enum_windows_callback(Head(ws), data))

WinGetWindows(ws) == Ok(EnumWindows(ws, << >>))

\* linux.rs get_window_name: XFetchName, else _NET_WM_NAME, else empty.
get_window_name(w) ==
  IF w.hasTitle THEN w.title
  ELSE IF Len(w.netName) > 0 THEN w.netName
  ELSE T_Empty

\* X11Loop as it would be had a failed attribute read ended the loop.
RECURSIVE X11LoopAbort(_, _)
X11LoopAbort(ws, result) ==
  IF ws = << >> THEN result
  ELSE LET w == Head(ws)
           title == get_window_name(w)
       IN IF IsEmpty(title) THEN X11LoopAbort(Tail(ws), result)
          ELSE IF ~w.attrsOk THEN result
          ELSE IF ~w.visible THEN X11LoopAbort(Tail(ws), result)
          ELSE X11LoopAbort(Tail(ws),
                 Append(result, WindowInfo(w.handle, title, "", TRUE)))

\* linux.rs get_windows: the loop over the _NET_CLIENT_LIST windows.
RECURSIVE X11Loop(_, _)
X11Loop(ws, result) ==
  IF ws = << >> THEN result
  ELSE LET w == Head(ws)
           title == get_window_name(w)
       IN X11Loop(Tail(ws),
            IF IsEmpty(title) THEN result
            ELSE IF ~w.attrsOk THEN result
            ELSE IF ~w.visible THEN result
            ELSE Append(result, WindowInfo(w.handle, title, "", TRUE)))

X11GetWindows(ws, displayOk) ==
  IF ~displayOk THEN Err(ErrGenericFailure) ELSE Ok(X11Loop(ws, << >>))

\* macos.rs get_windows: CGWindowListCopyWindowInfo(OnScreenOnly) lists the
\* windows on screen; the loop skips a dictionary without kCGWindowNumber and
\* a window whose title is missing or empty.
RECURSIVE CocoaLoop(_, _)
CocoaLoop(ws, result) ==
  IF ws = << >> THEN result
  ELSE LET w == Head(ws)
           title == IF w.hasTitle THEN w.title ELSE T_Empty
       IN CocoaLoop(Tail(ws),
            IF ~w.hasNumber THEN result
            ELSE IF IsEmpty(title) THEN result
            ELSE Append(result, WindowInfo(w.handle, title, "", TRUE)))

CocoaGetWindows(ws) ==
  Ok(CocoaLoop(SelectSeq(ws, LAMBDA w : w.visible), << >>))

\* platform::get_windows.
GetWindows(p, ws, displayOk) ==
  IF p = "win32" THEN WinGetWindows(ws)
  ELSE IF p = "x11" THEN X11GetWindows(ws, displayOk)
  ELSE CocoaGetWindows(ws)

\* char::to_lowercase on the ASCII letters; every other character of the
\* titles used here is its own lower case.
UpperCase == <<"A", "B", "C", "D", "E", "F", "G", "H", "I", "J", "K", "L", "M",
               "N", "O", "P", "Q", "R", "S", "T", "U", "V", "W", "X", "Y", "Z">>
LowerCase == <<"a", "b", "c", "d", "e", "f", "g", "h", "i", "j", "k", "l", "m",
               "n", "o", "p", "q", "r", "s", "t", "u", "v", "w", "x", "y", "z">>
ToLowerChar(c) ==
  IF \E i \in DOMAIN UpperCase : UpperCase[i] = c
  THEN LowerCase[CHOOSE i \in DOMAIN UpperCase : UpperCase[i] = c]
  ELSE c
to_lowercase(text) == [i \in 1..Len(text) |-> ToLowerChar(text[i])]

\* str::contains: the pattern occurs at some offset (at 0 when it is empty).
contains(text, pat) ==
  \E i \in 0..(Len(text) - Len(pat)) : SubSeq(text, i + 1, i + Len(pat)) = pat

\* Option<bool>::unwrap_or(false); the option is "none", "true" or "false".
unwrap_or_false(exact) == exact = "true"

\* TitleMatches as it would be had only the window's title been lower-cased.
TitleMatchesCase(w, title, exact) ==
  IF exact THEN w.title = title
  ELSE contains(to_lowercase(w.title), title)
\* lib.rs find_windows_by_title: the filter closure.
TitleMatches(w, title, exact) ==
  IF exact THEN w.title = title
  ELSE contains(to_lowercase(w.title), to_lowercase(title))

\* lib.rs find_windows_by_title, on the result of platform::get_windows()
\* (`?` hands an error on).
find_windows_by_title(all_windows, title, exact) ==
  IF all_windows.status # "ok" THEN all_windows
  ELSE Ok(SelectSeq(all_windows.list,
            LAMBDA w : TitleMatches(w, title, unwrap_or_false(exact))))

\* lib.rs find_window_by_title: windows.into_iter().next().
find_window_by_title(all_windows, title, exact) ==
  LET windows == find_windows_by_title(all_windows, title, exact)
  IN IF windows.status # "ok" THEN windows
     ELSE IF windows.list = << >> THEN Ok(<< >>)
     ELSE Ok(<<Head(windows.list)>>)

LiveIn(ws, h) == \E i \in DOMAIN ws : ws[i].handle = h
WinOf(ws, h) == ws[CHOOSE i \in DOMAIN ws : ws[i].handle = h]

\* windows.rs get_window_info: None for the null handle only; for any other
\* handle the record is built from whatever the queries answer (IsWindowVisible
\* false, an empty text and class for a handle that is no window).
WinGetWindowInfo(ws, h) ==
  IF h = NullHandle THEN Ok(<< >>)
  ELSE IF LiveIn(ws, h)
  THEN Ok(<<WindowInfo(h, WinOf(ws, h).title, WinOf(ws, h).cls, WinOf(ws, h).visible)>>)
  ELSE Ok(<<WindowInfo(h, T_Empty, "", FALSE)>>)

\* linux.rs get_window_info: None when XGetWindowAttributes fails.
X11GetWindowInfo(ws, h, displayOk) ==
  IF ~displayOk THEN Err(ErrGenericFailure)
  ELSE IF ~(LiveIn(ws, h) /\ WinOf(ws, h).attrsOk) THEN Ok(<< >>)
  ELSE Ok(<<WindowInfo(h, get_window_name(WinOf(ws, h)), "", WinOf(ws, h).visible)>>)

\* macos.rs get_window_info: the first record of get_windows() with the handle.
CocoaGetWindowInfo(ws, h) ==
  LET found == SelectSeq(CocoaGetWindows(ws).list, LAMBDA w : w.handle = h)
  IN IF found = << >> THEN Ok(<< >>) ELSE Ok(<<Head(found)>>)

\* platform::get_window_info.
GetWindowInfo(p, ws, h, displayOk) ==
  IF p = "win32" THEN WinGetWindowInfo(ws, h)
  ELSE IF p = "x11" THEN X11GetWindowInfo(ws, h, displayOk)
  ELSE CocoaGetWindowInfo(ws, h)

\* Windows of the registry in one enumeration behaviour.
MaxWindows == 2

\* The titles searched for.
Queries == {T_Notepad, T_notepad, T_PAD, T_Empty}
ExactArgs == {"none", "true", "false"}

\* The kinds of window each OS may report (the handle is given by the place).
WindowKinds(p) ==
  IF p = "win32"
  THEN {OsWindow(p, 0, T_MyNotepad, "Notepad", TRUE, {}),
        OsWindow(p, 0, T_Notepad, "Shell_TrayWnd", TRUE, {}),
        OsWindow(p, 0, T_notepad, "Progman", TRUE, {WS_EX_NOACTIVATE}),
        OsWindow(p, 0, T_Empty, "Notepad", TRUE, {}),
        OsWindow(p, 0, T_notepad, "Notepad", FALSE, {}),
        OsWindow(p, 0, T_PAD, "Tool", TRUE, {WS_EX_TOOLWINDOW}),
        OsWindow(p, 0, T_Notepad, "Tool", TRUE,
                 {WS_EX_TOOLWINDOW, WS_EX_NOACTIVATE})}
  ELSE IF p = "x11"
  THEN {OsWindow(p, 0, T_MyNotepad, "", TRUE, {}),
        OsWindow(p, 0, T_Empty, "", TRUE, {}),
        OsWindow(p, 0, T_notepad, "", FALSE, {}),
        [OsWindow(p, 0, T_Empty, "", TRUE, {}) EXCEPT !.hasTitle = FALSE,
                                                       !.netName = T_Notepad],
        [OsWindow(p, 0, T_PAD, "", TRUE, {}) EXCEPT !.attrsOk = FALSE]}
  ELSE {OsWindow(p, 0, T_MyNotepad, "", TRUE, {}),
        OsWindow(p, 0, T_Empty, "", TRUE, {}),
        OsWindow(p, 0, T_notepad, "", FALSE, {}),
        [OsWindow(p, 0, T_Notepad, "", TRUE, {}) EXCEPT !.hasTitle = FALSE],
        [OsWindow(p, 0, T_PAD, "", TRUE, {}) EXCEPT !.hasNumber = FALSE]}

EnumRegistries(p) ==
  UNION {{[i \in 1..n |-> [k[i] EXCEPT !.handle = i]] :
            k \in [1..n -> WindowKinds(p)]} : n \in 0..MaxWindows}

\* Whether XOpenDisplay succeeds, where a display is opened at all.
DisplayOutcomes == IF platform = "x11" THEN BOOLEAN ELSE {TRUE}

EnumFrame ==
  UNCHANGED <<platform, callers, table, lock, disp, crashed, pc, call, cur,
              exs, ret, pre, post, osCalls, tblAcc, clean, prev, tbl0, lastSet,
              ncalls, dispatched>>

\* One lookup in a behaviour, at any point of the registry's history: a
\* lookup reads the registry alone, so this covers every lookup.
MayAsk == ~crashed /\ enumRes.op = "none"

\* getWindows() may be asked again after getWindows(), the registry having
\* changed or not in between.
MayAskAgain == ~crashed /\ enumRes.op \in {"none", "get_windows"}

\* DoGetWindows as it would be had the first list been kept and handed out
\* again on the later calls.
DoGetWindowsCached ==
  /\ MayAskAgain
  /\ \E d \in DisplayOutcomes :
       enumRes' = IF enumRes.op = "get_windows"
                  THEN [enumRes EXCEPT !.ws = oswins]
                  ELSE [EnumResult("get_windows", 0, T_Empty, "none",
                                   GetWindows(platform, oswins, d))
                          EXCEPT !.display = d]
  /\ UNCHANGED oswins /\ EnumFrame

\* getWindows().
DoGetWindows ==
  /\ MayAskAgain
  /\ \E d \in DisplayOutcomes :
       enumRes' = [EnumResult("get_windows", 0, T_Empty, "none",
                              GetWindows(platform, oswins, d))
                     EXCEPT !.display = d]
  /\ UNCHANGED oswins /\ EnumFrame

\* findWindowsByTitle(title, exact).
DoFindWindows ==
  /\ MayAsk
  /\ \E d \in DisplayOutcomes, q \in Queries, e \in ExactArgs :
       enumRes' = [EnumResult("find_windows", 0, q, e,
                     find_windows_by_title(GetWindows(platform, oswins, d), q, e))
                     EXCEPT !.display = d]
  /\ UNCHANGED oswins /\ EnumFrame

\* findWindowByTitle(title, exact).
DoFindWindow ==
  /\ MayAsk
  /\ \E d \in DisplayOutcomes, q \in Queries, e \in ExactArgs :
       enumRes' = [EnumResult("find_window", 0, q, e,
                     find_window_by_title(GetWindows(platform, oswins, d), q, e))
                     EXCEPT !.display = d]
  /\ UNCHANGED oswins /\ EnumFrame

\* getWindowInfo(handle).
DoGetWindowInfo ==
  /\ MayAsk
  /\ \E d \in DisplayOutcomes, h \in 0..(MaxWindows + 1) :
       enumRes' = [EnumResult("get_window_info", h, T_Empty, "none",
                              GetWindowInfo(platform, oswins, h, d))
                     EXCEPT !.display = d]
  /\ UNCHANGED oswins /\ EnumFrame

\* A window is closed by its owner: the OS drops it from the registry.
OsWindowCloses ==
  /\ \E i \in DOMAIN oswins :
       oswins' = SubSeq(oswins, 1, i - 1) \o SubSeq(oswins, i + 1, Len(oswins))
  /\ UNCHANGED enumRes /\ EnumFrame

InitEnum ==
  /\ platform \in Platforms
  /\ callers = {}
  /\ oswins \in EnumRegistries(platform)
  /\ InitLib

NextEnum ==
  \/ DoGetWindows \/ DoFindWindows \/ DoFindWindow \/ DoGetWindowInfo
  \/ OsWindowCloses

SpecEnum == InitEnum /\ [][NextEnum]_vars

\* ------------------------------------------- the lookups under the caller
\* The variables a lookup that opens no display leaves alone.
LookupFrame ==
  /\ UNCHANGED <<oswins, table, lock, disp, crashed, cur, exs>>
  /\ CallFrame

\* windows.rs get_windows and get_window_info: no display, no table; the
\* null check of get_window_info comes before any OS call.
WinLookup(t) ==
  /\ platform = "win32" /\ ~crashed /\ pc[t] \in LookupOps
  /\ IF call[t].op = "get_windows"
     THEN /\ enumRes' = EnumResult("get_windows", NullHandle, T_Empty, "none",
                                   WinGetWindows(oswins))
          /\ Finish(t, OkValue, 1, 0)
     ELSE /\ enumRes' = EnumResult("get_window_info", call[t].h, T_Empty,
                                   "none", WinGetWindowInfo(oswins, call[t].h))
          /\ Finish(t, OkValue, IF call[t].h = NullHandle THEN 0 ELSE 1, 0)
  /\ LookupFrame

\* macos.rs get_windows and get_window_info (which is get_windows()? and a
\* search of its result).
CocoaLookup(t) ==
  /\ platform = "cocoa" /\ ~crashed /\ pc[t] \in LookupOps
  /\ enumRes' =
       IF call[t].op = "get_windows"
       THEN EnumResult("get_windows", NullHandle, T_Empty, "none",
                       CocoaGetWindows(oswins))
       ELSE EnumResult("get_window_info", call[t].h, T_Empty, "none",
                       CocoaGetWindowInfo(oswins, call[t].h))
  /\ Finish(t, OkValue, 1, 0)
  /\ LookupFrame

\* linux.rs get_windows with the display open: the client list and the loop
\* over it; XCloseDisplay and Ok(result) follow.
X11ListWindows(t) ==
  /\ platform = "x11" /\ Running(t, "list_windows")
  /\ enumRes' = EnumResult("get_windows", NullHandle, T_Empty, "none",
                           X11GetWindows(oswins, TRUE))
  /\ Goto(t, "x_close", 2, 0)
  /\ UNCHANGED ret
  /\ LookupFrame

\* X11InfoAttrs as it would be had the early return left out XCloseDisplay.
X11InfoAttrsLeak(t) ==
  /\ platform = "x11" /\ Running(t, "info_attrs")
  /\ LET h == call[t].h
         res == X11GetWindowInfo(oswins, h, TRUE)
     IN /\ enumRes' = EnumResult("get_window_info", h, T_Empty, "none", res)
        /\ IF ~(LiveIn(oswins, h) /\ WinOf(oswins, h).attrsOk)
           THEN Finish(t, OkValue, 3, 0) /\ UNCHANGED disp
           ELSE Goto(t, "x_close", 3, 0) /\ UNCHANGED <<ret, disp>>
  /\ UNCHANGED <<oswins, table, lock, crashed, cur, exs>>
  /\ CallFrame

\* linux.rs get_window_info with the display open: the name, the pid and
\* XGetWindowAttributes.  When that fails the function closes the display and
\* returns Ok(None) at once; otherwise XCloseDisplay and Ok(Some(info)) follow.
X11InfoAttrs(t) ==
  /\ platform = "x11" /\ Running(t, "info_attrs")
  /\ LET h == call[t].h
         res == X11GetWindowInfo(oswins, h, TRUE)
     IN /\ enumRes' = EnumResult("get_window_info", h, T_Empty, "none", res)
        /\ IF ~(LiveIn(oswins, h) /\ WinOf(oswins, h).attrsOk)
           THEN /\ disp' = [disp EXCEPT ![t] = FALSE]
                /\ Finish(t, OkValue, 4, 0)
           ELSE Goto(t, "x_close", 3, 0) /\ UNCHANGED <<ret, disp>>
  /\ UNCHANGED <<oswins, table, lock, crashed, cur, exs>>
  /\ CallFrame

\* NotImplemented as it would be had the stubs answered Ok(()), as the stubs
\* of the click-through operations for other platforms do.
NotImplementedOk(t) ==
  /\ platform # "win32" /\ ~crashed /\ pc[t] \in WinOnlyOps
  /\ Finish(t, OkUnit, 0, 0)
  /\ UNCHANGED enumRes
  /\ LookupFrame

\* platform/mod.rs, not Windows: get_window_process_path, close_window,
\* focus_window, set_window_state and kill_window_process ignore their
\* arguments and return Err("Not implemented for this platform").
NotImplemented(t) ==
  /\ platform # "win32" /\ ~crashed /\ pc[t] \in WinOnlyOps
  /\ Finish(t, ErrGenericFailure, 0, 0)
  /\ UNCHANGED enumRes
  /\ LookupFrame

\* get_windows and get_window_info, and the operations without a backend.
StepLookup(t) ==
  \/ WinLookup(t) \/ CocoaLookup(t) \/ X11ListWindows(t) \/ X11InfoAttrs(t)
  \/ NotImplemented(t)

Next == \E t \in Threads : StepCt(t) \/ StepAttr(t) \/ StepLookup(t)

Spec == Init /\ [][Next]_vars

\* ================================================================== claims
\* The single caller has completed two calls in a row, both
\* toggle_click_through on the same non-null handle.
TwoToggles ==
  /\ callers = {1} /\ pc[1] = "done"
  /\ call[1].op = "toggle" /\ call[1].h # NullHandle
  /\ prev.toggle /\ prev.h = call[1].h

\* C1, as stated: for every non-null handle and every starting state, two
\* toggle_click_through(h) calls in sequence with nothing between them leave
\* is_click_through(h) at the value it had before the first.
C1_RoundTripAlways == TwoToggles => ObsCT(call[1].h) = prev.pre

\* C1, amended: the round trip holds whenever both calls returned Ok.  (On X11
\* a call fails when the display cannot be opened and then changes nothing, so
\* one failed call of the two leaves the state inverted.)
C1_RoundTrip ==
  (TwoToggles /\ prev.ok /\ IsOk(ret[1])) => ObsCT(call[1].h) = prev.pre

\* Two successful toggles on X11 that started from click-through enabled.
C1_Witness ==
  /\ TwoToggles /\ prev.ok /\ IsOk(ret[1])
  /\ platform = "x11" /\ prev.pre /\ ~prev.post /\ ObsCT(call[1].h)

\* A completed call of one of the five operations on the null handle.
NullCall(t) ==
  /\ pc[t] = "done" /\ call[t].h = NullHandle
  /\ call[t].op \in {"set", "is", "toggle", "top", "opacity"}

\* C2: on every platform set_click_through, is_click_through,
\* toggle_click_through, set_always_on_top and set_window_opacity called with
\* handle 0 fail with the invalid-handle error, having issued no OS call and
\* neither read nor written the click-through table.
C2_NullRejected ==
  \A t \in Threads :
    NullCall(t) => ret[t] = ErrInvalidArg /\ osCalls[t] = 0 /\ tblAcc[t] = 0

\* Both caller threads have run toggle_click_through to the end of its body,
\* at the same time, and no third call touched either handle meanwhile.
BothToggled ==
  /\ callers = Threads
  /\ \A t \in Threads : pc[t] = "ret" /\ call[t].op = "toggle" /\ clean[t]

\* The state of h after a toggle_click_through(h) that ran alone from state
\* `before`: inverted, except that a Win32 handle that names no window has no
\* style to invert.
SeqToggle(h, before) ==
  IF platform = "win32" THEN Live(h) /\ ~before ELSE ~before

\* C3, as stated: for two distinct handles and any interleaving of one
\* toggle_click_through on each, each call returns the negation of its own
\* handle's prior state and each handle ends where a sequential run ends.
C3_NoInterferenceAlways ==
  (BothToggled /\ call[1].h # call[2].h) =>
    \A t \in Threads :
      /\ ret[t] = OkBool(~pre[t])
      /\ ObsCT(call[t].h) = SeqToggle(call[t].h, pre[t])

\* C3, amended: for two distinct handles and any interleaving of one
\* toggle_click_through on each, a call that returns Ok returns the negation of
\* its own handle's prior state and leaves the handle where a toggle running
\* alone leaves it; a call that returns an error (X11: the display cannot be
\* opened) leaves its handle as it was.  The other call changes neither.
C3_NoInterference ==
  (BothToggled /\ call[1].h # call[2].h) =>
    \A t \in Threads :
      /\ IsOk(ret[t]) =>
           /\ ret[t] = OkBool(~pre[t])
           /\ ObsCT(call[t].h) = SeqToggle(call[t].h, pre[t])
      /\ IsErr(ret[t]) => ObsCT(call[t].h) = pre[t]

\* Two overlapping toggles on distinct handles of the shared X11 table, both
\* Ok, one turning click-through off and the other turning it on.
C3_Witness ==
  /\ BothToggled /\ call[1].h # call[2].h
  /\ platform = "x11" /\ IsOk(ret[1]) /\ IsOk(ret[2])
  /\ pre[1] /\ ~pre[2]
  /\ ~ObsCT(call[1].h) /\ ObsCT(call[2].h)

\* Two overlapping toggles on the same handle that both read the same
\* `current` and both returned Ok.
SameRead ==
  /\ callers = Threads
  /\ \A t \in Threads : pc[t] = "ret" /\ call[t].op = "toggle" /\ IsOk(ret[t])
  /\ call[1].h = call[2].h /\ cur[1] = cur[2]
  /\ platform = "win32" => Live(call[1].h)

\* C4: toggle_click_through is not atomic for one handle.  Whenever two
\* concurrent toggles on the same handle have read the same current value, both
\* return the same new state and is_click_through(h) ends at that new state,
\* the inverse of what two sequential toggles leave (a lost update); the
\* witness shows the interleaving is reachable.
C4_LostUpdate ==
  SameRead =>
    /\ ret[1] = OkBool(~cur[1]) /\ ret[2] = ret[1]
    /\ ObsCT(call[1].h) = ~cur[1]
    /\ ObsCT(call[1].h) # SeqToggle(call[1].h, SeqToggle(call[1].h, cur[1]))

\* The lost update on the X11 table: both calls began with the handle off,
\* both returned Ok(true), and the handle is on, not off as after two toggles.
C4_Witness ==
  /\ SameRead /\ platform = "x11"
  /\ ~pre[1] /\ ~pre[2] /\ ~cur[1]
  /\ ret[1] = OkBool(TRUE) /\ ret[2] = OkBool(TRUE)
  /\ ObsCT(call[1].h)

\* C10: a thread that holds the click-through table's lock is at the single
\* map read of is_click_through or the single map insert of set_click_through;
\* the step that releases the lock is exactly one table access, and no step
\* that issues an OS call (display open or close, shape change,
\* setIgnoresMouseEvents) is taken by a thread holding the lock.
C10_LockScope ==
  [][\A t \in Threads :
       /\ lock = t => pc[t] \in {"is_read", "set_insert"}
       /\ (lock = t /\ lock' # t) => tblAcc'[t] = tblAcc[t] + 1
       /\ (lock # t /\ lock' = t) => tblAcc'[t] = tblAcc[t]
       /\ osCalls'[t] > osCalls[t] => lock # t /\ lock' # t
       /\ tblAcc'[t] > tblAcc[t] => lock = t]_vars

\* Thread 1 holds the lock for its insert, its X11 display still open, while
\* thread 2 waits for the lock.
C10_Witness ==
  /\ platform = "x11" /\ lock = 1 /\ pc[1] = "set_insert" /\ disp[1]
  /\ pc[2] = "set_lock"

\* A lookup of a handle that names no window of the registry it ran against
\* (it never did, or the window has been closed).
StaleLookup ==
  enumRes.op = "get_window_info" /\ ~LiveIn(enumRes.ws, enumRes.h)

\* C5: on every platform get_window_info(h) for a handle that resolves to no
\* currently open window returns Ok(None): no error and no populated record.
C5_StaleIsNone == StaleLookup => enumRes.res = Ok(<< >>)

\* The records an enumeration or a title search returned.
Listed ==
  IF enumRes.op \in {"get_windows", "find_windows", "find_window"}
  THEN {enumRes.res.list[i] : i \in DOMAIN enumRes.res.list}
  ELSE {}

\* C6: on every platform and for every set of OS windows, no record returned
\* by get_windows has an empty title, and so none returned by
\* find_windows_by_title or find_window_by_title has one either.
C6_NoEmptyTitle == \A w \in Listed : w.title # << >>

\* get_windows ran against a registry holding a visible window without a
\* title next to a titled one, and returned the titled one.
C6_Witness ==
  /\ enumRes.op = "get_windows"
  /\ \E i \in DOMAIN enumRes.ws :
       enumRes.ws[i].visible /\ enumRes.ws[i].title = << >>
  /\ Listed # {}

\* C7: on Win32 no record returned by get_windows has one of the five system
\* class names, even when the window is visible and has a title.
C7_NoSystemClass ==
  (platform = "win32" /\ enumRes.op = "get_windows") =>
    \A w \in Listed :
      /\ w.class_name # "Windows.UI.Core.CoreWindow"
      /\ w.class_name # "Shell_TrayWnd"
      /\ w.class_name # "Shell_SecondaryTrayWnd"
      /\ w.class_name # "Progman"
      /\ w.class_name # "WorkerW"

\* Win32 get_windows ran against a visible, titled Progman window that is no
\* tool window, and a window of another class, and returned only the latter.
C7_Witness ==
  /\ platform = "win32" /\ enumRes.op = "get_windows"
  /\ \E i \in DOMAIN enumRes.ws :
       /\ enumRes.ws[i].cls = "Progman" /\ enumRes.ws[i].visible
       /\ enumRes.ws[i].title # << >>
       /\ WS_EX_TOOLWINDOW \notin enumRes.ws[i].exstyle
  /\ Listed # {}

\* The claim's own reading of a match: equality when exact is true, and
\* otherwise the search text occurring in the title at some offset, letter
\* case aside.
C8_SameLetter(a, b) ==
  \/ a = b
  \/ \E i \in DOMAIN UpperCase :
       {a, b} \subseteq {UpperCase[i], LowerCase[i]}
C8_Matches(w, title, exact) ==
  IF exact = "true" THEN w.title = title
  ELSE \E off \in 0..(Len(w.title) - Len(title)) :
         \A k \in 1..Len(title) : C8_SameLetter(w.title[off + k], title[k])

\* C8: find_windows_by_title(title, exact) returns exactly the records of
\* get_windows, in get_windows' order, whose title equals the search text when
\* exact is true, or contains it letter case aside when exact is false or
\* omitted; "Notepad" matches "My Notepad - file.txt" unless exact is true.
C8_FindIsFilter ==
  enumRes.op = "find_windows" =>
    LET all == GetWindows(platform, enumRes.ws, enumRes.res.status = "ok")
        hit(w) == C8_Matches(w, enumRes.title, enumRes.exact)
    IN /\ enumRes.res.status = all.status
       /\ enumRes.res.list = SelectSeq(all.list, hit)
       /\ enumRes.title = T_Notepad =>
            \A i \in DOMAIN all.list :
              all.list[i].title = T_MyNotepad =>
                ((\E j \in DOMAIN enumRes.res.list :
                     enumRes.res.list[j] = all.list[i])
                   <=> enumRes.exact # "true")

\* A search for "notepad", exact omitted, over two listed windows titled
\* "My Notepad - file.txt" returned both, in order.
C8_Witness ==
  /\ enumRes.op = "find_windows" /\ enumRes.title = T_notepad
  /\ enumRes.exact = "none"
  /\ Len(enumRes.res.list) = 2
  /\ enumRes.res.list[1].handle < enumRes.res.list[2].handle
  /\ enumRes.res.list[1].title = T_MyNotepad

\* The single caller's set_window_opacity has run to the end of its body.
OpacityRan == callers = {1} /\ pc[1] = "ret" /\ call[1].op = "opacity"

\* C9, as stated: set_window_opacity clamps its input to [0.0, 1.0] before it
\* dispatches; the platform backend never receives a value outside the range.
C9_InRangeAlways ==
  OpacityRan =>
    ~dispatched.nan /\ dispatched.tenths >= 0 /\ dispatched.tenths <= 10

\* What each platform stores for the opacities 0.0 and 1.0: the alpha byte of
\* SetLayeredWindowAttributes, the 32-bit _NET_WM_WINDOW_OPACITY (in halves),
\* the alphaValue (in tenths).
C9_Stored(p, one) ==
  IF p = "win32" THEN [nan |-> FALSE, hi |-> 0, lo |-> IF one THEN 255 ELSE 0]
  ELSE IF p = "x11"
  THEN [nan |-> FALSE, hi |-> IF one THEN 65535 ELSE 0,
        lo |-> IF one THEN 65535 ELSE 0]
  ELSE [nan |-> FALSE, hi |-> 0, lo |-> IF one THEN 10 ELSE 0]

\* C9, amended: for every input that is a number, set_window_opacity hands the
\* platform the input clamped to [0.0, 1.0]: a call with an opacity below 0
\* dispatches 0.0 and stores on the window what a call with 0.0 stores, a call
\* with an opacity above 1 dispatches 1.0 and stores what a call with 1.0
\* stores.  NaN is not clamped: the platform receives NaN.
C9_Clamped ==
  OpacityRan =>
    LET raw == call[1].opacity
        h == call[1].h
        eff == IF raw.tenths < 0 THEN 0
               ELSE IF raw.tenths > 10 THEN 10 ELSE raw.tenths
    IN /\ raw.nan => dispatched.nan
       /\ ~raw.nan =>
            /\ dispatched = F64(eff)
            /\ (IsOk(ret[1]) /\ Live(h) /\ eff \in {0, 10}) =>
                 Win(h).alpha = C9_Stored(platform, eff = 10)

\* set_window_opacity(h, -0.5) on a live, opaque macOS window dispatched 0.0
\* and stored alphaValue 0.0.
C9_Witness ==
  /\ OpacityRan /\ platform = "cocoa" /\ IsOk(ret[1])
  /\ call[1].opacity = F64(0 - 5) /\ Live(call[1].h)
  /\ Win(call[1].h).alpha.lo = 0
  /\ dispatched = F64(0)

\* C11: on X11 every display connection an operation opens (set_click_through,
\* get_windows, get_window_info, set_always_on_top, set_window_opacity) is
\* closed when its body ends, on every return path, error results and the
\* early return of get_window_info included; once the calls have completed no
\* display connection is open.
C11_DisplayClosed ==
  platform = "x11" =>
    /\ \A t \in Threads : pc[t] \in {"idle", "ret", "done"} => ~disp[t]
    /\ (\A t \in Threads : ~InProgress(t)) => {t \in Threads : disp[t]} = {}

\* get_window_info on X11 opened the display, found no window behind the
\* handle, and took the early return with the display closed.
C11_Witness ==
  /\ platform = "x11" /\ pc[1] = "ret" /\ call[1].op = "get_window_info"
  /\ ret[1] = OkValue /\ enumRes.res = Ok(<< >>)
  /\ osCalls[1] > 1 /\ ~disp[1]

\* The handles of a sequence of windows or of records, in order.
HandlesOf(seq) == [i \in DOMAIN seq |-> seq[i].handle]

\* An X11 window has a name: WM_NAME, or _NET_WM_NAME where WM_NAME is missing.
X11Named(w) ==
  IF w.hasTitle THEN w.title # << >> ELSE w.netName # << >>

\* C12: on X11 get_windows returns an error and no list when the display
\* cannot be opened; once the display is open a window whose attribute read
\* fails is left out, and every other named, mapped window of the client list
\* is returned, in the list's order.
C12_AbortOrSkip ==
  (platform = "x11" /\ enumRes.op = "get_windows") =>
    IF ~enumRes.display
    THEN enumRes.res.status = ErrGenericFailure /\ enumRes.res.list = << >>
    ELSE /\ enumRes.res.status = "ok"
         /\ \A i \in DOMAIN enumRes.ws :
              ~enumRes.ws[i].attrsOk =>
                \A j \in DOMAIN enumRes.res.list :
                  enumRes.res.list[j].handle # enumRes.ws[i].handle
         /\ HandlesOf(enumRes.res.list) =
              HandlesOf(SelectSeq(enumRes.ws,
                LAMBDA w : w.attrsOk /\ w.visible /\ X11Named(w)))

\* get_windows on X11, display open: the first window of the client list is
\* named but its attribute read fails, the second qualifies and is returned.
C12_Witness ==
  /\ platform = "x11" /\ enumRes.op = "get_windows" /\ enumRes.display
  /\ Len(enumRes.ws) = 2
  /\ ~enumRes.ws[1].attrsOk /\ X11Named(enumRes.ws[1])
  /\ HandlesOf(enumRes.res.list) = <<2>>

\* The single caller has run one of the five Windows-only operations to its
\* end on another platform.
UnsupportedRan ==
  /\ platform # "win32" /\ callers = {1} /\ pc[1] \in {"ret", "done"}
  /\ call[1].op \in WinOnlyOps

\* C13: on every platform but Windows get_window_process_path, close_window,
\* focus_window, set_window_state and kill_window_process return an error for
\* every handle, and the click-through table is as it was when the call began.
C13_Unsupported ==
  UnsupportedRan => IsErr(ret[1]) /\ table = tbl0 /\ tblAcc[1] = 0

\* close_window on a live X11 window whose click-through entry is set
\* returned the error; the entry is still there.
C13_Witness ==
  /\ UnsupportedRan /\ platform = "x11" /\ call[1].op = "close_window"
  /\ Live(call[1].h) /\ ret[1] = ErrGenericFailure
  /\ call[1].h \in DOMAIN table /\ table[call[1].h]

\* No call of the single caller is running.
Quiet == callers = {1} /\ ~InProgress(1)

\* C14: the key set of the click-through table only grows: no step of any
\* operation removes an entry; and on X11 and macOS, between calls, the table
\* holds an entry for exactly the handles on which a set_click_through call
\* has returned Ok, each with the flag of the latest such call.
C14_TableGrows ==
  [][/\ DOMAIN table \subseteq DOMAIN table'
     /\ (Quiet' /\ platform # "win32") => table' = lastSet']_vars

\* Three calls on X11 or macOS have left two entries, one of them overwritten
\* with false.
C14_Witness ==
  /\ Quiet /\ platform # "win32"
  /\ Cardinality(DOMAIN table) = 2
  /\ \E h \in DOMAIN table : ~table[h]
  /\ table = lastSet

\* The single caller's is_click_through has run to its end on X11 or macOS.
QueryRan ==
  /\ platform # "win32" /\ callers = {1} /\ pc[1] \in {"ret", "done"}
  /\ call[1].op = "is"

\* C15: on X11 and macOS is_click_through(h) returns false for a handle on
\* which no set_click_through has returned Ok, and otherwise the flag of the
\* latest set_click_through(h, _) that returned Ok; it issues no OS call and
\* leaves the table as it was.
C15_QueryReadsTable ==
  QueryRan =>
    /\ ret[1] = OkBool(IF call[1].h \in DOMAIN lastSet
                       THEN lastSet[call[1].h] ELSE FALSE)
    /\ osCalls[1] = 0
    /\ table = tbl0

\* is_click_through(1) returned true on macOS while handle 2, set to false
\* before, also has an entry.
C15_Witness ==
  /\ QueryRan /\ platform = "cocoa" /\ call[1].h = 1
  /\ ret[1] = OkBool(TRUE)
  /\ 2 \in DOMAIN lastSet /\ ~lastSet[2]

\* The single caller's toggle_click_through has returned; no other call runs.
ToggleReturned == callers = {1} /\ pc[1] = "done" /\ call[1].op = "toggle"

\* C16: with no other call on h, a toggle_click_through(h) that returns Ok
\* returns the negation of what is_click_through(h) answered just before the
\* call, and is_click_through(h) just after the call answers the returned
\* value; a toggle that returns an error leaves the state of h unchanged.
C16_ToggleReturnsNew ==
  ToggleReturned =>
    /\ IsOk(ret[1]) =>
         /\ ret[1] = OkBool(~pre[1])
         /\ post[1] = (ret[1] = OkBool(TRUE))
    /\ IsErr(ret[1]) => post[1] = pre[1]

\* The extended style the OS holds for window h after the step.
StyleAfter(h) ==
  LET i == CHOOSE i \in DOMAIN oswins : oswins[i].handle = h
  IN oswins'[i].exstyle

\* C17: on Win32, set_click_through(h, enable) for a non-null h reads the
\* style without changing it, then writes a style in which the layered bit is
\* set, the transparent bit is set iff enable, and every other bit is as it
\* was; and when the call returns, is_click_through(h) answers enable.
C17_StyleBits ==
  [][\A t \in callers :
       (/\ platform = "win32" /\ call[t].op = "set" /\ call[t].h # NullHandle
        /\ pc'[t] # pc[t]) =>
         /\ pc[t] = "set" => oswins' = oswins
         /\ (pc[t] = "set_write" /\ Live(call[t].h)) =>
              LET old == Win(call[t].h).exstyle
                  new == StyleAfter(call[t].h)
                  ct == {WS_EX_TRANSPARENT, WS_EX_LAYERED}
              IN /\ WS_EX_LAYERED \in new
                 /\ WS_EX_TRANSPARENT \in new <=> call[t].enable
                 /\ new \ ct = old \ ct
         /\ pc[t] = "ret" => post'[t] = call[t].enable]_vars

\* A window of the OS's sequence qualifies: it is visible (Win32), mapped as
\* its attributes tell (X11), on screen with a window number (macOS), it has
\* a non-empty title, and on Win32 its class is none of the five system
\* classes and it is no tool window without the no-activate style.
C18_Qualifies(w) ==
  IF platform = "win32"
  THEN /\ w.visible /\ w.title # << >>
       /\ w.cls \notin {"Windows.UI.Core.CoreWindow", "Shell_TrayWnd",
                        "Shell_SecondaryTrayWnd", "Progman", "WorkerW"}
       /\ ~(WS_EX_TOOLWINDOW \in w.exstyle /\ WS_EX_NOACTIVATE \notin w.exstyle)
  ELSE IF platform = "x11"
  THEN w.attrsOk /\ w.visible /\ X11Named(w)
  ELSE w.visible /\ w.hasNumber /\ w.hasTitle /\ w.title # << >>

\* The record of a qualifying window.
C18_Record(w) ==
  [handle |-> w.handle,
   title |-> IF w.hasTitle THEN w.title ELSE w.netName,
   class_name |-> IF platform = "win32" THEN w.cls ELSE "",
   visible |-> TRUE]

\* C18: every get_windows call whose display could be opened returns exactly
\* the qualifying windows of the OS's window sequence as it is at that call,
\* one record each, in the OS's order, every record with visible = true;
\* nothing of an earlier call's result is kept.
C18_ExactSnapshot ==
  [][(enumRes'.op = "get_windows" /\ enumRes' # enumRes /\ enumRes'.display) =>
       LET sel == SelectSeq(oswins, C18_Qualifies)
       IN /\ enumRes'.ws = oswins
          /\ enumRes'.res = Ok([i \in 1..Len(sel) |-> C18_Record(sel[i])])
          /\ \A i \in DOMAIN enumRes'.res.list : enumRes'.res.list[i].visible]_vars

\* get_windows on Win32 was asked when the first of two windows had closed;
\* the window left is a tool window with the no-activate style and is listed.
C18_Witness ==
  /\ platform = "win32" /\ enumRes.op = "get_windows"
  /\ enumRes.ws = oswins /\ HandlesOf(oswins) = <<2>>
  /\ WS_EX_TOOLWINDOW \in oswins[1].exstyle
  /\ HandlesOf(enumRes.res.list) = <<2>>

\* A set_click_through on handle h is in progress, called directly or by
\* toggle_click_through.
Setting(h) ==
  \E t \in callers :
    InProgress(t) /\ call[t].h = h /\ call[t].op \in {"set", "toggle"}

\* C19: on X11, whenever no set_click_through on h is in progress, the table's
\* value for h equals the input-shape state last applied to the window h
\* (empty input region iff tracked true), for every interleaving of concurrent
\* set_click_through and toggle_click_through calls on h.
C19_TableMatchesShape ==
  platform = "x11" =>
    \A h \in Handles :
      (Live(h) /\ ~Setting(h)) => TableGet(h) = Win(h).inputOff

\* The single caller's set_click_through or toggle_click_through on X11 is at
\* get_display() in this step and XOpenDisplay refuses.
OpenRefused ==
  /\ platform = "x11" /\ callers = {1}
  /\ call[1].op \in {"set", "toggle"}
  /\ pc[1] = "set" /\ pc'[1] # "set" /\ ~disp'[1]

\* C20: on X11, when the display cannot be opened, set_click_through(h, e) and
\* toggle_click_through(h) return an error and the table is exactly as it was
\* when the call began.
C20_OpenFailureKeepsTable ==
  [][OpenRefused =>
       /\ pc'[1] = "ret" /\ ret'[1] = ErrGenericFailure
       /\ table' = tbl0' /\ table' = table]_vars

\* toggle_click_through(1) on X11 found handle 1 tracked as click-through,
\* could not open the display, and returned an error with the entry still
\* true.
C20_Witness ==
  /\ platform = "x11" /\ callers = {1} /\ pc[1] = "done"
  /\ call[1].op = "toggle" /\ call[1].h = 1
  /\ ret[1] = ErrGenericFailure
  /\ 1 \in DOMAIN tbl0 /\ tbl0[1] /\ table = tbl0

\* set_always_on_top, set_window_opacity, get_windows and get_window_info.
FrameOps == {"top", "opacity"} \cup LookupOps

\* C21: on every platform, set_always_on_top, set_window_opacity, get_windows
\* and get_window_info never change the click-through state of any handle:
\* what is_click_through(h) answers is the same before and after the call, for
\* every h, and at no step of the call does it differ; on Win32
\* set_window_opacity may add the layered bit, and the transparent bit of every
\* window stays as it was.
C21_FrameOpsKeepClickThrough ==
  /\ []((callers = {1} /\ pc[1] = "done" /\ call[1].op \in FrameOps) =>
         /\ post[1] = pre[1]
         /\ platform # "win32" => table = tbl0)
  /\ [][(callers = {1} /\ call'[1].op \in FrameOps) =>
          /\ \A h \in Handles : ObsCT(h)' = ObsCT(h)
          /\ table' = table
          /\ \A h \in Handles :
               (Live(h) /\ Live(h)') =>
                 (WS_EX_TRANSPARENT \in Win(h).exstyle)' =
                   (WS_EX_TRANSPARENT \in Win(h).exstyle)]_vars

\* set_window_opacity on Win32 has returned Ok for a click-through window
\* whose style had no layered bit when the call read it: the window now has
\* the layered bit and is_click_through answers true as before.
C21_Witness ==
  /\ platform = "win32" /\ callers = {1} /\ pc[1] = "done"
  /\ call[1].op = "opacity" /\ ret[1] = OkUnit
  /\ WS_EX_LAYERED \notin exs[1]
  /\ Live(call[1].h)
  /\ {WS_EX_LAYERED, WS_EX_TRANSPARENT} \subseteq Win(call[1].h).exstyle
  /\ pre[1] /\ post[1]

====
